---- MODULE Spec2Model ----
(***************************************************************************)
(* rtkit-rs: a blocking D-Bus client of the RealtimeKit broker.            *)
(* The client (struct RTKit) owns one bus connection; every operation is   *)
(* one synchronous method call on that connection.  The bus daemon, the    *)
(* broker and the kernel's scheduling attributes are the environment.      *)
(***************************************************************************)
EXTENDS Integers, Sequences, FiniteSets, TLC

VARIABLES
    busUp,      \* the system bus accepts connections and carries calls
    names,      \* the names registered on the bus (what ListNames returns)
    props,      \* the broker's policy: property name -> value it exposes
    sched,      \* scheduling attributes of the calling thread (sched_getattr)
    rlimit,     \* RLIMIT_RTTIME of the calling process, <<>> when unlimited
    client,     \* <<>> or <<[connection |-> c]>>: the RTKit value the caller holds
    last,       \* the most recent invocation: what it sent, received and returned
    earlier     \* the property read just before it, if that is what preceded it

vars == <<busUp, names, props, sched, rlimit, client, last, earlier>>

-----------------------------------------------------------------------------
(* Addressing constants *)

RTKIT_OBJECT_PATH == "/org/freedesktop/RealtimeKit1"
RTKIT_SERVICE_NAME == "org.freedesktop.RealtimeKit1"
RTKIT_INTERFACE == "org.freedesktop.RealtimeKit1"
DBUS_SERVICE == "org.freedesktop.DBus"
DBUS_PATH == "/org/freedesktop/DBus"
PROPERTIES_INTERFACE == "org.freedesktop.DBus.Properties"

-----------------------------------------------------------------------------
(* Bounds and input domains *)

\* how many thread/process ids that are not the caller's own are tried as arguments
NumForeignIds == 1

\* the calling process and the calling thread, as the kernel numbers them
CallerPid == 4100
CallerTid == 4101
ForeignIds == {7000 + k : k \in 1..NumForeignIds}
TidInputs == {CallerTid} \cup ForeignIds
PidInputs == {CallerPid} \cup ForeignIds

\* the broker's default policy, which the tests expect
DefaultMaxRealtimePriority == 20
DefaultMinNiceLevel == -15
DefaultRTTimeUSecMax == 200000

\* the values an administrator may set each property to: the default and a stricter one
PropertyNames == {"MaxRealtimePriority", "MinNiceLevel", "RTTimeUSecMax"}
PolicyValues(p) ==
    CASE p = "MaxRealtimePriority" -> {DefaultMaxRealtimePriority, 5}
      [] p = "MinNiceLevel" -> {DefaultMinNiceLevel, -5}
      [] p = "RTTimeUSecMax" -> {DefaultRTTimeUSecMax, 100000}

\* priorities the caller asks for: the tests' values, which only the stricter
\* policy forbids, and values every policy forbids
TestNice == -10
TestRealtime == 10
NiceInputs == {TestNice, -20}
RealtimeInputs == {TestRealtime, 50}

-----------------------------------------------------------------------------
(* Wire values *)

\* a typed value: t is its D-Bus type code ("()" for Rust's unit, "RTKit" for the
\* client struct), n its number, s its text
Str(s) == [t |-> "s", s |-> s, n |-> 0]
I32(n) == [t |-> "i", s |-> "", n |-> n]
U32(n) == [t |-> "u", s |-> "", n |-> n]
I64(n) == [t |-> "x", s |-> "", n |-> n]
U64(n) == [t |-> "t", s |-> "", n |-> n]
Unit == [t |-> "()", s |-> "", n |-> 0]
RTKit(connection) == [t |-> "RTKit", s |-> "", n |-> connection]
NoValue == [t |-> "", s |-> "", n |-> 0]

\* D-Bus type codes of the variants a property reply may wrap
WireTags == {"i", "x"}
DeclaredTag(p) == IF p = "RTTimeUSecMax" THEN "x" ELSE "i"

\* Result<T, E>; Panicked stands for an unwinding panic, which returns nothing
Ok(v) == [kind |-> "Ok", v |-> v, err |-> ""]
Err(e) == [kind |-> "Err", v |-> NoValue, err |-> e]
Panicked(e) == [kind |-> "Panic", v |-> NoValue, err |-> e]
IsOk(r) == r.kind = "Ok"

\* Result::unwrap()
Unwrap(r) == IF IsOk(r) THEN r ELSE Panicked(r.err)

\* zvariant: i32::try_from(&Value) yields the payload of Value::I32 and
\* Error::IncorrectType for every other variant
TryFromI32(value) ==
    IF value.t = "i" THEN Ok(I32(value.n)) ELSE Err("IncorrectType")

\* zvariant: i64::try_from(&Value), likewise for Value::I64
TryFromI64(value) ==
    IF value.t = "x" THEN Ok(I64(value.n)) ELSE Err("IncorrectType")

\* message.body().deserialize::<Vec<String>>(): the body must be an array of strings
DeserializeNames(body) ==
    IF body.sig = "as" THEN Ok(body.names) ELSE Err("SignatureMismatch")

\* message.body().deserialize::<Value>(): the body must be one variant
DeserializeValue(body) ==
    IF body.sig = "v" THEN Ok(body.variant) ELSE Err("SignatureMismatch")

\* `x as u64`: a non-negative number is kept; a negative one wraps to 2^64 + x,
\* which is kept symbolic
AsU64(x) == IF x >= 0 THEN U64(x) ELSE [t |-> "t", s |-> "2^64 +", n |-> x]

-----------------------------------------------------------------------------
(* The environment: bus daemon, broker, kernel *)

\* args is the tuple of typed values that makes the body of the call
Call(dest, path, iface, method, args) ==
    [dest |-> dest, path |-> path, iface |-> iface, method |-> method, args |-> args]

Types(args) == [i \in DOMAIN args |-> args[i].t]

EmptyBody == [sig |-> "", names |-> {}, variant |-> NoValue]
ReturnNames(ns) == [ok |-> TRUE, body |-> [EmptyBody EXCEPT !.sig = "as", !.names = ns], err |-> ""]
ReturnVariant(value) ==
    [ok |-> TRUE, body |-> [EmptyBody EXCEPT !.sig = "v", !.variant = value], err |-> ""]
ReturnEmpty == [ok |-> TRUE, body |-> EmptyBody, err |-> ""]
ErrorReply(e) == [ok |-> FALSE, body |-> EmptyBody, err |-> e]

\* what one delivered call may produce: a reply and the scheduling attributes after it
Outcome(reply, s) == [reply |-> reply, sched |-> s]

\* org.freedesktop.DBus.ListNames; a reply without the array stands for a
\* body that does not decode
BusDaemon(c) ==
    IF c.method = "ListNames" /\ c.args = <<>>
    THEN {Outcome(ReturnNames(names), sched), Outcome(ReturnEmpty, sched)}
    ELSE {Outcome(ErrorReply("UnknownMethod"), sched)}

\* org.freedesktop.DBus.Properties.Get on the broker: the value in a variant,
\* whose type the broker chooses
BrokerGet(c) ==
    IF /\ Types(c.args) = <<"s", "s">>
       /\ c.args[1].s = RTKIT_INTERFACE
       /\ c.args[2].s \in PropertyNames
    THEN {Outcome(ReturnVariant([t |-> t, s |-> "", n |-> props[c.args[2].s]]), sched) :
              t \in WireTags}
         \cup {Outcome(ReturnEmpty, sched)}
    ELSE {Outcome(ErrorReply("UnknownProperty"), sched)}

\* the broker grants a nice level within [MinNiceLevel, 0] to a thread of the caller
BrokerHighPriority(pid, tid, priority) ==
    IF /\ pid = CallerPid
       /\ tid = CallerTid
       /\ props["MinNiceLevel"] <= priority
       /\ priority <= 0
    THEN {Outcome(ReturnEmpty,
                  [policy |-> "SCHED_OTHER", priority |-> 0, nice |-> priority])}
    ELSE {Outcome(ErrorReply("AccessDenied"), sched)}

\* the broker grants a real-time priority within [1, MaxRealtimePriority] when the
\* caller's RLIMIT_RTTIME is set and within RTTimeUSecMax
BrokerRealtime(pid, tid, priority) ==
    IF /\ pid = CallerPid
       /\ tid = CallerTid
       /\ 1 <= priority
       /\ priority <= props["MaxRealtimePriority"]
       /\ rlimit # <<>>
       /\ rlimit[1].s = ""
       /\ rlimit[1].n <= props["RTTimeUSecMax"]
    THEN {Outcome(ReturnEmpty,
                  [policy |-> "SCHED_RR", priority |-> priority, nice |-> sched.nice])}
    ELSE {Outcome(ErrorReply("AccessDenied"), sched)}

Broker(c) ==
    IF c.path # RTKIT_OBJECT_PATH THEN {Outcome(ErrorReply("UnknownObject"), sched)}
    ELSE IF c.iface = PROPERTIES_INTERFACE /\ c.method = "Get" THEN BrokerGet(c)
    ELSE IF c.iface # RTKIT_INTERFACE THEN {Outcome(ErrorReply("UnknownInterface"), sched)}
    ELSE IF c.method = "MakeThreadHighPriority" /\ Types(c.args) = <<"t", "i">>
         THEN BrokerHighPriority(CallerPid, c.args[1].n, c.args[2].n)
    ELSE IF c.method = "MakeThreadHighPriorityWithPID" /\ Types(c.args) = <<"t", "t", "i">>
         THEN BrokerHighPriority(c.args[1].n, c.args[2].n, c.args[3].n)
    ELSE IF c.method = "MakeThreadRealtime" /\ Types(c.args) = <<"t", "u">>
         THEN BrokerRealtime(CallerPid, c.args[1].n, c.args[2].n)
    ELSE IF c.method = "MakeThreadRealtimeWithPID" /\ Types(c.args) = <<"t", "t", "u">>
         THEN BrokerRealtime(c.args[1].n, c.args[2].n, c.args[3].n)
    ELSE {Outcome(ErrorReply("UnknownMethod"), sched)}

\* zbus Connection::system()
SystemConnection == IF busUp THEN Ok(1) ELSE Err("Connection")

\* zbus Connection::call_method: blocks until the reply or a transport error
call_method(c) ==
    IF ~busUp THEN {Outcome(ErrorReply("Transport"), sched)}
    ELSE IF c.dest = DBUS_SERVICE THEN BusDaemon(c)
    ELSE IF c.dest \notin names THEN {Outcome(ErrorReply("ServiceUnknown"), sched)}
    ELSE Broker(c)

\* gettid(2) and getpid(2) of the caller; neither can fail
Gettid == CallerTid
Getpid == CallerPid

-----------------------------------------------------------------------------
(* The client *)

\* what the caller observes of one invocation
Returned(op, args, sent, recv, res) ==
    [op |-> op, args |-> args, sent |-> sent, recv |-> recv,
     outcome |-> res.kind, value |-> IF IsOk(res) THEN <<res.v>> ELSE <<>>,
     err |-> res.err]

Accessors == {"max_realtime_priority", "min_nice_level", "rttime_usec_max"}

Preceding ==
    IF last.op \in Accessors /\ last.outcome = "Ok"
    THEN <<last.op, last.value[1].n>> ELSE <<>>

ListNamesRequest == Call(DBUS_SERVICE, DBUS_PATH, DBUS_SERVICE, "ListNames", <<>>)

\* variant: a failed or undecodable ListNames counts as "not available"
is_rtkit_available_lenient(reply) ==
    IF ~reply.ok THEN Ok(FALSE)
    ELSE LET decoded == DeserializeNames(reply.body) IN
         IF ~IsOk(decoded) THEN Ok(FALSE)
         ELSE Ok(RTKIT_SERVICE_NAME \in decoded.v)

\* fn is_rtkit_available(connection) -> Result<bool>, given the reply to its call
is_rtkit_available(reply) ==
    IF ~reply.ok THEN Err(reply.err)
    ELSE LET decoded == DeserializeNames(reply.body) IN
         IF ~IsOk(decoded) THEN Err(decoded.err)
         ELSE Ok(RTKIT_SERVICE_NAME \in decoded.v)

\* RTKit::new, given the connection attempt and the reply to ListNames:
\* `?` returns the error of either step; the boolean itself is not looked at
new_result(connection, reply) ==
    IF ~IsOk(connection) THEN Err(connection.err)
    ELSE LET available == is_rtkit_available(reply) IN
         IF ~IsOk(available) THEN Err(available.err)
         ELSE Ok(RTKit(connection.v))

new ==
    LET connection == SystemConnection IN
    /\ IF ~IsOk(connection)
       THEN last' = Returned("new", <<>>, <<>>, <<>>, new_result(connection, ErrorReply("")))
       ELSE \E o \in call_method(ListNamesRequest) :
               last' = Returned("new", <<>>, <<ListNamesRequest>>, <<o.reply>>,
                                new_result(connection, o.reply))
    /\ client' = IF last'.outcome = "Ok" THEN last'.value ELSE client
    /\ earlier' = Preceding
    /\ UNCHANGED <<busUp, names, props, sched, rlimit>>

GetRequest(property) ==
    Call(RTKIT_SERVICE_NAME, RTKIT_OBJECT_PATH, PROPERTIES_INTERFACE, "Get",
         <<Str(RTKIT_INTERFACE), Str(property)>>)

MaxRealtimePriorityRequest == GetRequest("MaxRealtimePriority")
\* variant: the property name of the accessor above, left in place
MinNiceLevelRequest_copied == GetRequest("MaxRealtimePriority")
MinNiceLevelRequest == GetRequest("MinNiceLevel")
RTTimeUSecMaxRequest == GetRequest("RTTimeUSecMax")

\* the match on the reply in max_realtime_priority
max_realtime_priority_result(reply) ==
    IF ~reply.ok THEN Err(reply.err)
    ELSE LET variant == DeserializeValue(reply.body) IN
         IF ~IsOk(variant) THEN Err(variant.err)
         ELSE Unwrap(TryFromI32(variant.v))

\* the match on the reply in min_nice_level
min_nice_level_result(reply) ==
    IF ~reply.ok THEN Err(reply.err)
    ELSE LET variant == DeserializeValue(reply.body) IN
         IF ~IsOk(variant) THEN Err(variant.err)
         ELSE Unwrap(TryFromI32(variant.v))

\* the match on the reply in rttime_usec_max
rttime_usec_max_result(reply) ==
    IF ~reply.ok THEN Err(reply.err)
    ELSE LET variant == DeserializeValue(reply.body) IN
         IF ~IsOk(variant) THEN Err(variant.err)
         ELSE Unwrap(TryFromI64(variant.v))

\* a method of &self: the call on self.connection was delivered with outcome o
\* and the method returns result
Invoke(op, args, request, o, result) ==
    /\ client # <<>>
    /\ last' = Returned(op, args, <<request>>, <<o.reply>>, result)
    /\ sched' = o.sched
    /\ earlier' = Preceding
    /\ UNCHANGED <<busUp, names, props, rlimit, client>>

\* variant: the value read last is kept and handed out again
max_realtime_priority_memoized ==
    IF last.op = "max_realtime_priority" /\ last.outcome = "Ok"
    THEN /\ client # <<>>
         /\ last' = Returned("max_realtime_priority", <<>>, <<>>, <<>>, Ok(last.value[1]))
         /\ earlier' = Preceding
         /\ UNCHANGED <<busUp, names, props, sched, rlimit, client>>
    ELSE \E o \in call_method(MaxRealtimePriorityRequest) :
             Invoke("max_realtime_priority", <<>>, MaxRealtimePriorityRequest, o,
                    max_realtime_priority_result(o.reply))

max_realtime_priority ==
    \E o \in call_method(MaxRealtimePriorityRequest) :
        Invoke("max_realtime_priority", <<>>, MaxRealtimePriorityRequest, o,
               max_realtime_priority_result(o.reply))

min_nice_level ==
    \E o \in call_method(MinNiceLevelRequest) :
        Invoke("min_nice_level", <<>>, MinNiceLevelRequest, o,
               min_nice_level_result(o.reply))

rttime_usec_max ==
    \E o \in call_method(RTTimeUSecMaxRequest) :
        Invoke("rttime_usec_max", <<>>, RTTimeUSecMaxRequest, o,
               rttime_usec_max_result(o.reply))

\* `self.connection.call_method(...)?; Ok(())` of the four action calls
unit_result(reply) == IF ~reply.ok THEN Err(reply.err) ELSE Ok(Unit)

\* variant: the priority is raised to the broker's minimum nice level
MakeThreadHighPriorityRequest_bounded(thread_id, priority) ==
    Call(RTKIT_SERVICE_NAME, RTKIT_OBJECT_PATH, RTKIT_INTERFACE,
         "MakeThreadHighPriority",
         <<U64(thread_id),
           I32(IF priority < props["MinNiceLevel"] THEN props["MinNiceLevel"] ELSE priority)>>)

MakeThreadHighPriorityRequest(thread_id, priority) ==
    Call(RTKIT_SERVICE_NAME, RTKIT_OBJECT_PATH, RTKIT_INTERFACE,
         "MakeThreadHighPriority", <<U64(thread_id), I32(priority)>>)

MakeThreadHighPriorityWithPIDRequest(process_id, thread_id, priority) ==
    Call(RTKIT_SERVICE_NAME, RTKIT_OBJECT_PATH, RTKIT_INTERFACE,
         "MakeThreadHighPriorityWithPID",
         <<U64(process_id), U64(thread_id), I32(priority)>>)

\* variant: the priority is lowered to the broker's maximum
MakeThreadRealtimeRequest_bounded(thread_id, priority) ==
    Call(RTKIT_SERVICE_NAME, RTKIT_OBJECT_PATH, RTKIT_INTERFACE,
         "MakeThreadRealtime",
         <<U64(thread_id),
           U32(IF priority > props["MaxRealtimePriority"]
               THEN props["MaxRealtimePriority"] ELSE priority)>>)

MakeThreadRealtimeRequest(thread_id, priority) ==
    Call(RTKIT_SERVICE_NAME, RTKIT_OBJECT_PATH, RTKIT_INTERFACE,
         "MakeThreadRealtime", <<U64(thread_id), U32(priority)>>)

\* variant: the priority is lowered to the broker's maximum
MakeThreadRealtimeWithPIDRequest_bounded(process_id, thread_id, priority) ==
    Call(RTKIT_SERVICE_NAME, RTKIT_OBJECT_PATH, RTKIT_INTERFACE,
         "MakeThreadRealtimeWithPID",
         <<U64(process_id), U64(thread_id),
           U32(IF priority > props["MaxRealtimePriority"]
               THEN props["MaxRealtimePriority"] ELSE priority)>>)

MakeThreadRealtimeWithPIDRequest(process_id, thread_id, priority) ==
    Call(RTKIT_SERVICE_NAME, RTKIT_OBJECT_PATH, RTKIT_INTERFACE,
         "MakeThreadRealtimeWithPID",
         <<U64(process_id), U64(thread_id), U32(priority)>>)

make_thread_high_priority ==
    \E thread_id \in TidInputs, priority \in NiceInputs :
        LET request == MakeThreadHighPriorityRequest(thread_id, priority) IN
        \E o \in call_method(request) :
            Invoke("make_thread_high_priority", <<thread_id, priority>>, request, o,
                   unit_result(o.reply))

make_thread_high_priority_with_pid ==
    \E process_id \in PidInputs, thread_id \in TidInputs, priority \in NiceInputs :
        LET request == MakeThreadHighPriorityWithPIDRequest(process_id, thread_id, priority) IN
        \E o \in call_method(request) :
            Invoke("make_thread_high_priority_with_pid",
                   <<process_id, thread_id, priority>>, request, o, unit_result(o.reply))

make_thread_realtime ==
    \E thread_id \in TidInputs, priority \in RealtimeInputs :
        LET request == MakeThreadRealtimeRequest(thread_id, priority) IN
        \E o \in call_method(request) :
            Invoke("make_thread_realtime", <<thread_id, priority>>, request, o,
                   unit_result(o.reply))

make_thread_realtime_with_pid ==
    \E process_id \in PidInputs, thread_id \in TidInputs, priority \in RealtimeInputs :
        LET request == MakeThreadRealtimeWithPIDRequest(process_id, thread_id, priority) IN
        \E o \in call_method(request) :
            Invoke("make_thread_realtime_with_pid",
                   <<process_id, thread_id, priority>>, request, o, unit_result(o.reply))

\* associated functions: no &self, no connection
current_thread_id_value == AsU64(Gettid)
current_process_id_value == AsU64(Getpid)

\* variant: a method of &self, callable only on a constructed client
current_thread_id_method ==
    /\ client # <<>>
    /\ last' = Returned("current_thread_id", <<>>, <<>>, <<>>, Ok(current_thread_id_value))
    /\ earlier' = Preceding
    /\ UNCHANGED <<busUp, names, props, sched, rlimit, client>>

current_thread_id ==
    /\ last' = Returned("current_thread_id", <<>>, <<>>, <<>>, Ok(current_thread_id_value))
    /\ earlier' = Preceding
    /\ UNCHANGED <<busUp, names, props, sched, rlimit, client>>

current_process_id ==
    /\ last' = Returned("current_process_id", <<>>, <<>>, <<>>, Ok(current_process_id_value))
    /\ earlier' = Preceding
    /\ UNCHANGED <<busUp, names, props, sched, rlimit, client>>

-----------------------------------------------------------------------------
(* What the environment does between invocations *)

\* the caller sets RLIMIT_RTTIME to the value rttime_usec_max() just returned
setrlimit ==
    /\ last.op = "rttime_usec_max"
    /\ last.outcome = "Ok"
    /\ rlimit' = <<AsU64(last.value[1].n)>>
    /\ UNCHANGED <<busUp, names, props, sched, client, last, earlier>>

BusGoesDown ==
    /\ busUp
    /\ busUp' = FALSE
    /\ UNCHANGED <<names, props, sched, rlimit, client, last, earlier>>

BusComesUp ==
    /\ ~busUp
    /\ busUp' = TRUE
    /\ UNCHANGED <<names, props, sched, rlimit, client, last, earlier>>

BrokerStarts ==
    /\ RTKIT_SERVICE_NAME \notin names
    /\ names' = names \cup {RTKIT_SERVICE_NAME}
    /\ UNCHANGED <<busUp, props, sched, rlimit, client, last, earlier>>

BrokerExits ==
    /\ RTKIT_SERVICE_NAME \in names
    /\ names' = names \ {RTKIT_SERVICE_NAME}
    /\ UNCHANGED <<busUp, props, sched, rlimit, client, last, earlier>>

BrokerPolicyChanges ==
    /\ \E p \in PropertyNames : \E v \in PolicyValues(p) :
          /\ props[p] # v
          /\ props' = [props EXCEPT ![p] = v]
    /\ UNCHANGED <<busUp, names, sched, rlimit, client, last, earlier>>

-----------------------------------------------------------------------------

NoInvocation ==
    [op |-> "", args |-> <<>>, sent |-> <<>>, recv |-> <<>>, outcome |-> "",
     value |-> <<>>, err |-> ""]

Init ==
    /\ busUp = TRUE
    /\ names \in {{DBUS_SERVICE}, {DBUS_SERVICE, RTKIT_SERVICE_NAME}}
    /\ props = [p \in PropertyNames |->
                   CASE p = "MaxRealtimePriority" -> DefaultMaxRealtimePriority
                     [] p = "MinNiceLevel" -> DefaultMinNiceLevel
                     [] p = "RTTimeUSecMax" -> DefaultRTTimeUSecMax]
    /\ sched = [policy |-> "SCHED_OTHER", priority |-> 0, nice |-> 0]
    /\ rlimit = <<>>
    /\ client = <<>>
    /\ last = NoInvocation
    /\ earlier = <<>>

Next ==
    \/ new
    \/ max_realtime_priority
    \/ min_nice_level
    \/ rttime_usec_max
    \/ make_thread_high_priority
    \/ make_thread_high_priority_with_pid
    \/ make_thread_realtime
    \/ make_thread_realtime_with_pid
    \/ current_thread_id
    \/ current_process_id
    \/ setrlimit
    \/ BusGoesDown
    \/ BusComesUp
    \/ BrokerStarts
    \/ BrokerExits
    \/ BrokerPolicyChanges

Spec == Init /\ [][Next]_vars

-----------------------------------------------------------------------------
(* Properties *)

ActionCalls ==
    {"make_thread_high_priority", "make_thread_high_priority_with_pid",
     "make_thread_realtime", "make_thread_realtime_with_pid"}

PropertyOf(op) ==
    CASE op = "max_realtime_priority" -> "MaxRealtimePriority"
      [] op = "min_nice_level" -> "MinNiceLevel"
      [] op = "rttime_usec_max" -> "RTTimeUSecMax"

MethodOf(op) ==
    CASE op = "make_thread_high_priority" -> "MakeThreadHighPriority"
      [] op = "make_thread_high_priority_with_pid" -> "MakeThreadHighPriorityWithPID"
      [] op = "make_thread_realtime" -> "MakeThreadRealtime"
      [] op = "make_thread_realtime_with_pid" -> "MakeThreadRealtimeWithPID"

\* the step is an invocation of op
Invoked(op) == last'.op = op /\ <<last, earlier>>' # <<last, earlier>>

\* the discovery call of the last `new` was answered with a list of names
DiscoveryAnswered ==
    /\ last.op = "new"
    /\ Len(last.recv) = 1
    /\ last.recv[1].ok
    /\ last.recv[1].body.sig = "as"

\* C1: the constructor returns a client if and only if the broker's well-known
\* name is in the list ListNames returned; when the list lacks the name it
\* fails with ServiceNotAvailable and produces no client.
C1_ConstructionGating ==
    DiscoveryAnswered =>
        IF RTKIT_SERVICE_NAME \in last.recv[1].body.names
        THEN last.outcome = "Ok" /\ Len(last.value) = 1
        ELSE last.outcome = "Err" /\ last.err = "ServiceNotAvailable" /\ last.value = <<>>

\* the last property read was answered with a variant of another type than
\* the accessor declares
VariantMistyped ==
    /\ last.op \in Accessors
    /\ Len(last.recv) = 1
    /\ last.recv[1].ok
    /\ last.recv[1].body.sig = "v"
    /\ last.recv[1].body.variant.t # DeclaredTag(PropertyOf(last.op))

\* C2: a property accessor whose Get call succeeded with a value of another
\* type than the accessor declares returns an error to its caller; it neither
\* returns a value nor aborts the calling thread.
C2_TypeMismatchRejected ==
    VariantMistyped => last.outcome = "Err" /\ last.value = <<>>

\* the last invocation's remote step failed: no connection, a transport
\* failure, an error reply, or a reply that does not decode
RemoteStepFailed ==
    \/ last.op = "new" /\ last.sent = <<>>
    \/ /\ last.op \in {"new"} \cup Accessors \cup ActionCalls
       /\ Len(last.recv) = 1
       /\ \/ ~last.recv[1].ok
          \/ last.op = "new" /\ last.recv[1].body.sig # "as"
          \/ last.op \in Accessors /\ last.recv[1].body.sig # "v"
    \/ VariantMistyped

\* C3: every operation whose remote call ended in a transport failure, an
\* error reply or an undecodable reply returns a failure to its caller, with
\* no value in its place.
C3_ErrorsPropagate ==
    RemoteStepFailed => last.outcome = "Err" /\ last.value = <<>>

\* every accessor reads the property of its own name from the broker
ReadsOwnProperty(op) ==
    /\ Len(last'.sent) = 1
    /\ last'.sent[1].dest = RTKIT_SERVICE_NAME
    /\ last'.sent[1].method = "Get"
    /\ last'.sent[1].args = <<Str(RTKIT_INTERFACE), Str(PropertyOf(op))>>

\* C4: a successful property accessor returns exactly the value the broker
\* exposes under the accessor's own property name at the time of the call,
\* sign and magnitude unchanged.
C4_RoundTripFidelity ==
    [][\A op \in Accessors :
          Invoked(op) /\ last'.outcome = "Ok" =>
              /\ ReadsOwnProperty(op)
              /\ last'.value =
                     <<[t |-> DeclaredTag(PropertyOf(op)), s |-> "",
                        n |-> props'[PropertyOf(op)]]>>]_vars

\* the three accessors have returned a negative, default-policy value
C4_Witness ==
    /\ last.op = "min_nice_level"
    /\ last.outcome = "Ok"
    /\ last.value = <<I32(DefaultMinNiceLevel)>>
    /\ props["MinNiceLevel"] = DefaultMinNiceLevel
    /\ earlier = <<"rttime_usec_max", DefaultRTTimeUSecMax>>

\* C5: an action call sends one request carrying its arguments exactly as
\* given, whatever the priority, and succeeds or fails as the reply to that
\* request does; it never fails before the request is made.
C5_NoLocalBoundEnforcement ==
    last.op \in ActionCalls =>
        /\ Len(last.sent) = 1 /\ Len(last.recv) = 1
        /\ last.sent[1].dest = RTKIT_SERVICE_NAME
        /\ last.sent[1].path = RTKIT_OBJECT_PATH
        /\ last.sent[1].iface = RTKIT_INTERFACE
        /\ last.sent[1].method = MethodOf(last.op)
        /\ [i \in DOMAIN last.sent[1].args |-> last.sent[1].args[i].n] = last.args
        /\ Types(last.sent[1].args) =
               (IF last.op \in {"make_thread_high_priority", "make_thread_realtime"}
                THEN <<"t">> ELSE <<"t", "t">>)
               \o (IF last.op \in {"make_thread_high_priority",
                                   "make_thread_high_priority_with_pid"}
                   THEN <<"i">> ELSE <<"u">>)
        /\ (last.outcome = "Ok") = last.recv[1].ok
        /\ (last.outcome # "Ok") => (last.outcome = "Err" /\ last.err = last.recv[1].err)

\* a real-time priority above the broker's maximum was sent and the broker
\* refused it
C5_Witness ==
    /\ last.op = "make_thread_realtime"
    /\ last.args = <<CallerTid, TestRealtime>>
    /\ TestRealtime > props["MaxRealtimePriority"]
    /\ last.sent[1].args = <<U64(CallerTid), U32(TestRealtime)>>
    /\ last.outcome = "Err"
    /\ last.err = "AccessDenied"

\* C6: every invocation of a property accessor or an action call issues
\* exactly one remote call, to the broker, and a successful accessor returns
\* the value the broker exposes now, whatever an earlier read returned.
C6_OneRoundTripNoCache ==
    [][\A op \in Accessors \cup ActionCalls :
          Invoked(op) =>
              /\ Len(last'.sent) = 1 /\ Len(last'.recv) = 1
              /\ last'.sent[1].dest = RTKIT_SERVICE_NAME
              /\ (op \in Accessors /\ last'.outcome = "Ok" =>
                     last'.value[1].n = props'[PropertyOf(op)])]_vars

\* the same accessor was read twice in a row and returned two different values
C6_Witness ==
    /\ last.op = "max_realtime_priority"
    /\ last.outcome = "Ok"
    /\ Len(last.sent) = 1
    /\ earlier # <<>>
    /\ earlier[1] = last.op
    /\ earlier[2] # last.value[1].n

\* C7: when a high-priority call naming the calling thread (and, with a pid,
\* the calling process) returns success, the request carried that thread and
\* priority and the thread's niceness is the priority asked for.
C7_HighPrioritySideEffect ==
    /\ (last.op = "make_thread_high_priority" /\ last.outcome = "Ok"
           /\ last.args[1] = CallerTid) =>
          /\ last.sent[1].args = <<U64(CallerTid), I32(last.args[2])>>
          /\ sched.nice = last.args[2]
    /\ (last.op = "make_thread_high_priority_with_pid" /\ last.outcome = "Ok"
           /\ last.args[1] = CallerPid /\ last.args[2] = CallerTid) =>
          /\ last.sent[1].args = <<U64(CallerPid), U64(CallerTid), I32(last.args[3])>>
          /\ sched.nice = last.args[3]

\* make_thread_high_priority_with_pid(pid, tid, -10) has succeeded
C7_Witness ==
    /\ last.op = "make_thread_high_priority_with_pid"
    /\ last.outcome = "Ok"
    /\ last.args = <<CallerPid, CallerTid, TestNice>>
    /\ sched.nice = TestNice

RealtimePolicies == {"SCHED_FIFO", "SCHED_RR"}

\* C8: with RLIMIT_RTTIME set to a value rttime_usec_max() returned, when a
\* real-time call naming the calling thread returns success the thread runs
\* under a real-time policy at the priority asked for.
C8_RealtimeSideEffect ==
    /\ (last.op = "make_thread_realtime" /\ last.outcome = "Ok"
           /\ last.args[1] = CallerTid /\ rlimit # <<>>) =>
          /\ sched.policy \in RealtimePolicies
          /\ sched.priority = last.args[2]
    /\ (last.op = "make_thread_realtime_with_pid" /\ last.outcome = "Ok"
           /\ last.args[1] = CallerPid /\ last.args[2] = CallerTid /\ rlimit # <<>>) =>
          /\ sched.policy \in RealtimePolicies
          /\ sched.priority = last.args[3]

\* make_thread_realtime(tid, 10) has succeeded under the default RLIMIT_RTTIME
C8_Witness ==
    /\ last.op = "make_thread_realtime"
    /\ last.outcome = "Ok"
    /\ last.args = <<CallerTid, TestRealtime>>
    /\ rlimit = <<U64(DefaultRTTimeUSecMax)>>
    /\ sched.policy = "SCHED_RR"
    /\ sched.priority = TestRealtime

\* C9: the identity helpers can be called in every state; each returns a
\* value greater than zero, issues no remote call and leaves the connection,
\* the bus and the broker as they were.
C9_IdentityHelpersLocal ==
    /\ [](ENABLED current_thread_id /\ ENABLED current_process_id)
    /\ [][\A op \in {"current_thread_id", "current_process_id"} :
            Invoked(op) =>
                /\ last'.outcome = "Ok"
                /\ last'.value[1].t = "t"
                /\ (last'.value[1].s = "" => last'.value[1].n > 0)
                /\ last'.sent = <<>>
                /\ UNCHANGED <<busUp, names, props, sched, rlimit, client>>]_vars

\* current_thread_id() has returned with no client, the bus down and the
\* broker not registered
C9_Witness ==
    /\ last.op = "current_thread_id"
    /\ last.value = <<U64(CallerTid)>>
    /\ client = <<>>
    /\ ~busUp
    /\ RTKIT_SERVICE_NAME \notin names

\* the discovery step of the last `new` failed
DiscoveryFailed ==
    /\ last.op = "new"
    /\ \/ last.sent = <<>>
       \/ Len(last.recv) = 1 /\ ~last.recv[1].ok
       \/ Len(last.recv) = 1 /\ last.recv[1].body.sig # "as"

====
